---- MODULE Spec2Model ----
(***************************************************************************)
(* The subtitle relay of src/backend/server.js as a state machine.         *)
(*                                                                         *)
(* One action per event the Node event loop delivers to the server: a new  *)
(* WebSocket connection, an inbound frame, a 'close' or 'error' event of a *)
(* channel, SIGTERM, SIGINT and the completion of server.close().  Every   *)
(* handler runs to completion (single-threaded event loop).                *)
(*                                                                         *)
(* ws.send() is library code outside the repository: every call either     *)
(* returns or throws, chosen by the environment.  An exception that no     *)
(* try/catch of server.js catches is an uncaught exception, which ends a   *)
(* Node process (server.js installs no 'uncaughtException' handler).       *)
(* Math.random() is a choice over the tokens it can return.                *)
(***************************************************************************)
EXTENDS Integers, Sequences, FiniteSets, TLC

\* Number of connections accepted in a run of Spec.
MaxConns == 2
\* Number of viewers accepted besides the sender in a run of SpecBroadcast.
MaxViewers == 2
\* Date.now() and client timestamps range over 0..MaxTime.
MaxTime == 1
\* Number of setTimeout callbacks of the client pending at a time.
MaxTimers == 2
\* Number of getUserMedia promises of the client pending at a time.
MaxPending == 1

\* the channels of a run
Conns == 1..(IF MaxConns > MaxViewers + 1 THEN MaxConns ELSE MaxViewers + 1)
Times == 0..MaxTime
\* The strings generateSessionId can return (a small sample of them), in the order
\* in which a run first meets them.
TokenSeq == <<"a", "b", "c">>
Tokens == { TokenSeq[i] : i \in 1..Len(TokenSeq) }
\* JavaScript's undefined, for a property a decoded object does not have.
Undefined == "undefined"
DefaultLanguage == "en-US"

VARIABLES
    activeSessions, \* the Map of server.js:17, as its insertion-ordered entries
    channel,        \* per channel: "NONE" (not yet accepted), "OPEN", "CLOSING" (the
                    \* server called close()), "ERRORED" ('error' was emitted),
                    \* "CLOSED" ('close' was emitted)
    sessionId,      \* per channel: the sessionId its handlers closed over (server.js:21)
    proc,           \* "running", "stopping" (SIGTERM handled), "exited", "crashed"
    event,          \* the event the last step handled
    sent,           \* the ws.send calls of the last step, in order
    response,       \* the body of the HTTP response of the last step, if any
    \* the browser client, src/unnamed/part_000 (class LiveSubtitleSystem)
    isListening,    \* this.isListening
    recognition,    \* the recognizer behind this.recognition: "idle", "starting"
                    \* (start() accepted, start event not yet delivered), "running",
                    \* "stopRequested" (stop() called while starting), "ending" (end
                    \* event not yet delivered)
    timers,         \* the pending setTimeout callbacks, in the order they were set
    pendingMedia,   \* the getUserMedia promises of startListening not yet settled
    startBtnDisabled, \* this.startBtn.disabled
    stopBtnDisabled,  \* this.stopBtn.disabled
    stopped,        \* stopListening() has run and startListening() was not called since
    call            \* the client handler the last step ran, and whether it called
                    \* recognition.start()

server == <<activeSessions, channel, sessionId, proc, event, sent, response>>

client == <<isListening, recognition, timers, pendingMedia, startBtnDisabled,
            stopBtnDisabled, stopped, call>>

vars == <<server, client>>

----------------------------------------------------------------------------
(* Values *)

\* property access on a decoded object: d[k], or undefined
Field(d, k) == IF k \in DOMAIN d THEN d[k] ELSE Undefined

\* JavaScript's a || b on strings: the empty string and undefined are falsy
Or(a, b) == IF a = Undefined \/ a = "" THEN b ELSE a

\* Inbound frames: the text does not parse, parses to null, or parses to an object.
StartFrames ==
    { [form |-> "object", data |-> [type |-> "start_listening"]] } \cup
    { [form |-> "object", data |-> [type |-> "start_listening", language |-> l]] :
        l \in {"", "fr-FR", "en-US"} }

PingFrames ==
    { [form |-> "object", data |-> [type |-> "ping", timestamp |-> T]] : T \in Times }

\* a subtitle_update whose payload brings its own sessionId and serverTimestamp
SpoofFrame ==
    [form |-> "object",
     data |-> [type |-> "subtitle_update", text |-> "bonjour",
               sessionId |-> "b", serverTimestamp |-> -1]]

Frames ==
    StartFrames \cup PingFrames \cup { SpoofFrame } \cup
    { [form |-> "malformed"],
      [form |-> "null"],
      [form |-> "object", data |-> [type |-> "stop_listening"]],
      [form |-> "object", data |-> [type |-> "subtitle_update", text |-> "bonjour"]],
      [form |-> "object", data |-> [type |-> "foo"]],
      [form |-> "object", data |-> [text |-> "no type"]] }

\* the frames of the relay proper
RelayFrames ==
    { [form |-> "object", data |-> [type |-> "start_listening"]],
      [form |-> "object", data |-> [type |-> "stop_listening"]],
      [form |-> "object", data |-> [type |-> "subtitle_update", text |-> "bonjour"]] }

NoFrame == [form |-> "none"]

\* the type a frame declares (undefined when it has none or is no object)
FrameType(f) == IF f.form = "object" THEN Field(f.data, "type") ELSE Undefined

----------------------------------------------------------------------------
(* The Map: a sequence of entries [id, ws, language, isActive] in insertion order *)

MapIndex(m, id) ==
    IF \E i \in 1..Len(m) : m[i].id = id
    THEN CHOOSE i \in 1..Len(m) : m[i].id = id
    ELSE 0

MapHas(m, id) == MapIndex(m, id) # 0

MapGet(m, id) == m[MapIndex(m, id)]

MapKeys(m) == { m[i].id : i \in 1..Len(m) }

\* Map.prototype.set: an existing key keeps its place, a new key goes last
MapSet(m, id, v) ==
    IF MapHas(m, id)
    THEN [m EXCEPT ![MapIndex(m, id)] = v]
    ELSE Append(m, v)

\* Map.prototype.delete: removing an absent key changes nothing
MapDelete(m, id) ==
    LET keep == { i \in 1..Len(m) : m[i].id # id }
        F[i \in 0..Len(m)] ==
            IF i = 0 THEN <<>>
            ELSE IF i \in keep THEN Append(F[i - 1], m[i]) ELSE F[i - 1]
    IN F[Len(m)]

----------------------------------------------------------------------------
(* Outbound messages *)

\* (the timestamp fields of session_init, listening_started, listening_stopped and
\* pong are Date.now() values that nothing reads back; they are left out)
SessionInit(id) == [type |-> "session_init", sessionId |-> id]
ListeningStarted(lang) == [type |-> "listening_started", language |-> lang]
ListeningStopped == [type |-> "listening_stopped"]
Pong(t, T) == [type |-> "pong", latency |-> t - T]
UnknownType(ty) == [type |-> "error", message |-> <<"Unknown message type: ", ty>>]
InvalidFormat == [type |-> "error", message |-> <<"Invalid message format">>]
ServerShutdown == [type |-> "server_shutdown", message |-> <<"Server is shutting down">>]

\* the spread written last: { serverTimestamp, sessionId, ...subtitleData }, so
\* that the payload's own fields win
BroadcastDataPayloadWins(d, t, sender) ==
    [k \in DOMAIN d \cup {"serverTimestamp", "sessionId"} |->
        IF k \in DOMAIN d THEN d[k]
        ELSE IF k = "serverTimestamp" THEN t
        ELSE sender]

\* a health body that counts the sessions whose isActive is true, as the `active`
\* field of GET /api/sessions does
HealthActiveOnly(m) ==
    [status |-> "healthy",
     activeSessions |-> Cardinality({ i \in 1..Len(m) : m[i].isActive })]

\* { ...subtitleData, serverTimestamp: Date.now(), sessionId: senderSessionId }
BroadcastData(d, t, sender) ==
    [k \in DOMAIN d \cup {"serverTimestamp", "sessionId"} |->
        IF k = "serverTimestamp" THEN t
        ELSE IF k = "sessionId" THEN sender
        ELSE d[k]]

\* the body of GET /api/health, server.js:141-148 (timestamp and uptime are
\* clock readings nothing reads back; they are left out)
Health(m) == [status |-> "healthy", activeSessions |-> Len(m)]

\* a step that answers no HTTP request
NoResponse == [status |-> "none"]

\* one call of ws.send: the channel, the message, whether the call threw
Send(ws, msg, threw) == [to |-> ws, msg |-> msg, threw |-> threw]

----------------------------------------------------------------------------
(* Handlers.  F is the set of channels on which ws.send throws during the   *)
(* handler, t is the value of Date.now().                                   *)

\* broadcastSubtitle with the test sessionId !== senderSessionId left out
broadcastSubtitleToSender(m, sender, d, F, t) ==
    IF ~MapHas(m, sender)
    THEN [sends |-> <<>>, threw |-> FALSE]
    ELSE
        LET data == BroadcastData(d, t, sender)
            Go[i \in 0..Len(m)] ==
                IF i = 0 THEN <<>>
                ELSE IF m[i].isActive
                     THEN Append(Go[i - 1], Send(m[i].ws, data, m[i].ws \in F))
                     ELSE Go[i - 1]
        IN [sends |-> Go[Len(m)], threw |-> FALSE]

\* broadcastSubtitle with the try/catch around the send left out: the first send
\* that throws ends the forEach and the exception leaves the function
broadcastSubtitleNoCatch(m, sender, d, F, t) ==
    IF ~MapHas(m, sender)
    THEN [sends |-> <<>>, threw |-> FALSE]
    ELSE
        LET data == BroadcastData(d, t, sender)
            Go[i \in 0..Len(m)] ==
                IF i = 0 THEN [sends |-> <<>>, threw |-> FALSE]
                ELSE IF ~Go[i - 1].threw /\ m[i].id # sender /\ m[i].isActive
                     THEN [sends |-> Append(Go[i - 1].sends,
                                            Send(m[i].ws, data, m[i].ws \in F)),
                           threw |-> m[i].ws \in F]
                     ELSE Go[i - 1]
        IN Go[Len(m)]

\* broadcastSubtitle returning early when the sender's own isActive is false
broadcastSubtitleActiveSender(m, sender, d, F, t) ==
    IF ~MapHas(m, sender) \/ ~MapGet(m, sender).isActive
    THEN [sends |-> <<>>, threw |-> FALSE]
    ELSE
        LET data == BroadcastData(d, t, sender)
            Go[i \in 0..Len(m)] ==
                IF i = 0 THEN <<>>
                ELSE IF m[i].id # sender /\ m[i].isActive
                     THEN Append(Go[i - 1], Send(m[i].ws, data, m[i].ws \in F))
                     ELSE Go[i - 1]
        IN [sends |-> Go[Len(m)], threw |-> FALSE]

\* server.js:112-133.  Returns the sends made and whether an exception escaped.
broadcastSubtitle(m, sender, d, F, t) ==
    IF ~MapHas(m, sender)
    THEN [sends |-> <<>>, threw |-> FALSE]
    ELSE
        LET data == BroadcastData(d, t, sender)
            \* forEach in insertion order; each send in its own try/catch
            Go[i \in 0..Len(m)] ==
                IF i = 0 THEN <<>>
                ELSE IF m[i].id # sender /\ m[i].isActive
                     THEN Append(Go[i - 1], Send(m[i].ws, data, m[i].ws \in F))
                     ELSE Go[i - 1]
        IN [sends |-> Go[Len(m)], threw |-> FALSE]

\* data.language as it is, without the default
ResolveLanguageNoDefault(d) == Field(d, "language")

\* session.language = data.language || 'en-US'   (server.js:72)
ResolveLanguage(d) == Or(Field(d, "language"), DefaultLanguage)

\* what a case of the switch leaves: the Map, the one reply sent on the session's
\* channel, and whether that send threw
Reply(m, ws, msg, F) ==
    [store |-> m, sends |-> <<Send(ws, msg, ws \in F)>>, threw |-> ws \in F]

\* case 'start_listening', server.js:70-80
caseStartListening(m, sid, d, F) ==
    LET session == MapGet(m, sid)
        s2 == [session EXCEPT !.isActive = TRUE, !.language = ResolveLanguage(d)]
    IN Reply(MapSet(m, sid, s2), session.ws, ListeningStarted(s2.language), F)

\* case 'stop_listening' clearing isActive of every session of the Map
caseStopListeningAll(m, sid, F) ==
    Reply([i \in 1..Len(m) |-> [m[i] EXCEPT !.isActive = FALSE]],
          MapGet(m, sid).ws, ListeningStopped, F)

\* case 'stop_listening' with the assignment session.isActive = false left out
caseStopListeningNoClear(m, sid, F) ==
    Reply(m, MapGet(m, sid).ws, ListeningStopped, F)

\* case 'stop_listening', server.js:82-89
caseStopListening(m, sid, F) ==
    LET session == MapGet(m, sid)
    IN Reply(MapSet(m, sid, [session EXCEPT !.isActive = FALSE]),
             session.ws, ListeningStopped, F)

\* case 'ping', server.js:96-102
casePing(m, sid, d, F, t) ==
    Reply(m, MapGet(m, sid).ws, Pong(t, d.timestamp), F)

\* default, server.js:104-108
caseDefault(m, sid, ty, F) ==
    Reply(m, MapGet(m, sid).ws, UnknownType(ty), F)

\* server.js:63-110.  Returns the Map afterwards, the sends made, and whether an
\* exception left the function.
handleWebSocketMessage(m, sid, f, F, t) ==
    IF ~MapHas(m, sid)
    THEN [store |-> m, sends |-> <<>>, threw |-> FALSE]
    ELSE IF f.form = "null"
    THEN \* data.type on null: TypeError
         [store |-> m, sends |-> <<>>, threw |-> TRUE]
    ELSE
        LET d == f.data
            ty == Field(d, "type")
        IN CASE ty = "start_listening" -> caseStartListening(m, sid, d, F)
             [] ty = "stop_listening" -> caseStopListening(m, sid, F)
             [] ty = "subtitle_update" ->
                  LET b == broadcastSubtitle(m, sid, d, F, t)
                  IN [store |-> m, sends |-> b.sends, threw |-> b.threw]
             [] ty = "ping" -> casePing(m, sid, d, F, t)
             [] OTHER -> caseDefault(m, sid, ty, F)

\* ws.on('message') of channel c, server.js:39-50: what the try block and the
\* catch block do.  e: whether the catch block's own ws.send throws.
onMessage(m, c, sid, f, F, e, t) ==
    LET h == IF f.form = "malformed"
             THEN \* JSON.parse throws
                  [store |-> m, sends |-> <<>>, threw |-> TRUE]
             ELSE handleWebSocketMessage(m, sid, f, F, t)
    IN IF h.threw
       THEN [store |-> h.store,
             sends |-> Append(h.sends, Send(c, InvalidFormat, e)),
             uncaught |-> e]
       ELSE [store |-> h.store, sends |-> h.sends, uncaught |-> FALSE]

\* server.js:135-138: two Math.random() strings concatenated.  The result is any
\* token; nothing compares it with the keys of the Map.  Tokens are interchangeable,
\* so up to renaming the result is a token handed out before (there are `used` of
\* them) or the first one not yet handed out.
generateSessionId(used) ==
    { TokenSeq[i] : i \in 1..(IF used < Len(TokenSeq) THEN used + 1 ELSE Len(TokenSeq)) }

\* a session created with isActive true
NewSessionActive(id, c) ==
    [id |-> id, ws |-> c, language |-> DefaultLanguage, isActive |-> TRUE]

\* the entry of server.js:25-30
NewSession(id, c) ==
    [id |-> id, ws |-> c, language |-> DefaultLanguage, isActive |-> FALSE]

\* the 'close' handler removing by position, as with an array:
\* splice(indexOf(id), 1) removes the last entry when the id is absent
onCloseSplice(m, sid) ==
    IF MapHas(m, sid) THEN MapDelete(m, sid)
    ELSE IF Len(m) = 0 THEN m ELSE SubSeq(m, 1, Len(m) - 1)

\* ws.on('close') and ws.on('error'), server.js:52-60
onClose(m, sid) == MapDelete(m, sid)
onError(m, sid) == MapDelete(m, sid)

\* the forEach of the SIGTERM handler, server.js:202-212: per session, in one
\* try block, send server_shutdown and then close the channel
shutdownSends(m, F) ==
    [i \in 1..Len(m) |-> Send(m[i].ws, ServerShutdown, m[i].ws \in F)]

\* the channels the SIGTERM handler calls close() on
shutdownClosed(m, F) == { m[i].ws : i \in { j \in 1..Len(m) : m[j].ws \notin F } }

----------------------------------------------------------------------------
(* The state machine *)

Alive == proc \in {"running", "stopping"}

Accepted == { c \in Conns : channel[c] # "NONE" }

\* the tokens handed out so far
UsedTokens == { sessionId[c] : c \in Accepted }

Ev(kind, c, f) == [kind |-> kind, conn |-> c, frame |-> f]

\* the handler a client step ran, and whether it called recognition.start()
Ran(handler, started) == [handler |-> handler, start |-> started]

\* The client after its constructor (part_000:2-18) on a browser that has speech
\* recognition.  The page's markup is not part of src/: the buttons start as the
\* else branch of onend leaves them (part_000:119-120).
ClientInit ==
    /\ isListening = FALSE
    /\ recognition = "idle"
    /\ timers = <<>>
    /\ pendingMedia = 0
    /\ startBtnDisabled = FALSE
    /\ stopBtnDisabled = TRUE
    /\ stopped = FALSE
    /\ call = Ran("constructor", FALSE)

Init ==
    /\ activeSessions = <<>>
    /\ channel = [c \in Conns |-> "NONE"]
    /\ sessionId = [c \in Conns |-> Undefined]
    /\ proc = "running"
    /\ event = Ev("init", 0, NoFrame)
    /\ response = NoResponse
    /\ ClientInit
    /\ sent = <<>>

\* wss.on('connection'), server.js:20-61
Connection(c, id, threw) ==
    /\ proc = "running"
    /\ channel[c] = "NONE"
    /\ \A k \in Conns : k < c => channel[k] # "NONE"
    /\ activeSessions' = MapSet(activeSessions, id, NewSession(id, c))
    /\ channel' = [channel EXCEPT ![c] = "OPEN"]
    /\ sessionId' = [sessionId EXCEPT ![c] = id]
    /\ sent' = <<Send(c, SessionInit(id), threw)>>
    \* a throw of the send at line 33 is caught nowhere
    /\ proc' = IF threw THEN "crashed" ELSE proc
    /\ event' = Ev("connection", c, NoFrame)
    /\ response' = NoResponse
    /\ UNCHANGED client

\* a frame arrives on channel c
Message(c, f, F, e, t) ==
    /\ Alive
    /\ c \in Accepted
    /\ LET r == onMessage(activeSessions, c, sessionId[c], f, F, e, t)
       IN /\ activeSessions' = r.store
          /\ sent' = r.sends
          /\ proc' = IF r.uncaught THEN "crashed" ELSE proc
    /\ event' = Ev("message", c, f)
    /\ response' = NoResponse
    /\ UNCHANGED client
    /\ UNCHANGED <<channel, sessionId>>

\* channel c emits 'close'
Close(c) ==
    /\ Alive
    /\ c \in Accepted
    /\ activeSessions' = onClose(activeSessions, sessionId[c])
    /\ channel' = [channel EXCEPT ![c] = "CLOSED"]
    /\ sent' = <<>>
    /\ event' = Ev("close", c, NoFrame)
    /\ response' = NoResponse
    /\ UNCHANGED client
    /\ UNCHANGED <<sessionId, proc>>

\* channel c emits 'error'; the library then closes the channel
Error(c) ==
    /\ Alive
    /\ c \in Accepted
    /\ activeSessions' = onError(activeSessions, sessionId[c])
    /\ channel' = [channel EXCEPT
                      ![c] = IF @ = "CLOSED" THEN "CLOSED" ELSE "ERRORED"]
    /\ sent' = <<>>
    /\ event' = Ev("error", c, NoFrame)
    /\ response' = NoResponse
    /\ UNCHANGED client
    /\ UNCHANGED <<sessionId, proc>>

\* process.on('SIGTERM'), server.js:198-218
Sigterm(F) ==
    /\ Alive
    /\ sent' = shutdownSends(activeSessions, F)
    /\ channel' = [c \in Conns |->
                         IF c \in shutdownClosed(activeSessions, F)
                            /\ channel[c] = "OPEN"
                         THEN "CLOSING" ELSE channel[c]]
    /\ proc' = "stopping"
    /\ event' = Ev("SIGTERM", 0, NoFrame)
    /\ response' = NoResponse
    /\ UNCHANGED client
    /\ UNCHANGED <<activeSessions, sessionId>>

\* the callback of server.close(), once every connection has ended
ServerClosed ==
    /\ proc = "stopping"
    /\ \A c \in Conns : channel[c] \in {"NONE", "CLOSED"}
    /\ proc' = "exited"
    /\ sent' = <<>>
    /\ event' = Ev("serverClosed", 0, NoFrame)
    /\ response' = NoResponse
    /\ UNCHANGED client
    /\ UNCHANGED <<activeSessions, channel, sessionId>>

\* process.on('SIGINT'), server.js:220-223
Sigint ==
    /\ Alive
    /\ proc' = "exited"
    /\ sent' = <<>>
    /\ event' = Ev("SIGINT", 0, NoFrame)
    /\ response' = NoResponse
    /\ UNCHANGED client
    /\ UNCHANGED <<activeSessions, channel, sessionId>>

\* app.get('/api/health'), server.js:141-148: a request is answered while the
\* process runs
HealthQuery ==
    /\ Alive
    /\ response' = Health(activeSessions)
    /\ UNCHANGED client
    /\ sent' = <<>>
    /\ event' = Ev("health", 0, NoFrame)
    /\ UNCHANGED <<activeSessions, channel, sessionId, proc>>

\* The choices a handler's outcome depends on: the channels whose ws.send throws
\* are drawn among the channels the handler sends to, and Date.now() is drawn
\* where the handler puts it into a message.
SendTargets(c, f) ==
    LET r == onMessage(activeSessions, c, sessionId[c], f, {}, FALSE, 0)
    IN { r.sends[i].to : i \in 1..Len(r.sends) }

ClockReads(f) ==
    IF FrameType(f) \in {"ping", "subtitle_update"} THEN Times ELSE {0}

StoreChannels == { activeSessions[i].ws : i \in 1..Len(activeSessions) }

\* The events of a run that accepts at most K connections and receives the
\* frames Fr.
NextOf(K, Fr) ==
    \/ \E c \in 1..K, id \in generateSessionId(Cardinality(UsedTokens)),
          threw \in BOOLEAN :
          Connection(c, id, threw)
    \/ \E c \in Conns, f \in Fr :
          \E F \in SUBSET SendTargets(c, f), e \in BOOLEAN, t \in ClockReads(f) :
             Message(c, f, F, e, t)
    \/ \E c \in Conns : Close(c)
    \/ \E c \in Conns : Error(c)
    \/ \E F \in SUBSET StoreChannels : Sigterm(F)
    \/ ServerClosed
    \/ Sigint
    \/ HealthQuery

Next == NextOf(MaxConns, Frames)

Spec == Init /\ [][Next]_vars

NextBroadcast == NextOf(MaxViewers + 1, RelayFrames)

SpecBroadcast == Init /\ [][NextBroadcast]_vars

----------------------------------------------------------------------------
(* The browser client, src/unnamed/part_000.  One action per callback the   *)
(* browser's event loop runs: a click, a change of the language select, a   *)
(* settled getUserMedia promise, a start or end event of the recognizer, a  *)
(* timer.  The recognizer is browser code: start() and stop() return at     *)
(* once and the start and end events are delivered later, as tasks of their *)
(* own, so other callbacks can run in between.                              *)

\* recognition.start(): throws InvalidStateError unless the recognizer is idle
recognitionStart(r) == IF r = "idle" THEN "starting" ELSE r

\* recognition.stop(): a started recognizer goes on to its end event; one whose
\* start event is still to come may deliver it or not
recognitionStop(r) ==
    CASE r = "running" -> "ending"
      [] r = "starting" -> "stopRequested"
      [] OTHER -> r

\* stopListening(), part_000:232-241
stopListening ==
    /\ isListening' = FALSE
    /\ recognition' = recognitionStop(recognition)
    /\ stopped' = TRUE

\* startListening(), part_000:213-230, up to the getUserMedia call
startListening ==
    /\ pendingMedia < MaxPending
    /\ pendingMedia' = pendingMedia + 1
    /\ stopped' = FALSE

\* click on startBtn (part_000:40); a disabled button delivers no click
ClickStart ==
    /\ ~startBtnDisabled
    /\ startListening
    /\ call' = Ran("startListening", FALSE)
    /\ UNCHANGED <<isListening, recognition, timers, startBtnDisabled, stopBtnDisabled>>
    /\ UNCHANGED server

\* the getUserMedia promise of startListening settles, part_000:221-229: when
\* granted, recognition.start() is called (an exception goes to the catch)
MediaSettled(granted) ==
    /\ pendingMedia > 0
    /\ pendingMedia' = pendingMedia - 1
    /\ recognition' = IF granted THEN recognitionStart(recognition) ELSE recognition
    /\ call' = Ran("getUserMedia", granted)
    /\ UNCHANGED <<isListening, timers, startBtnDisabled, stopBtnDisabled, stopped>>
    /\ UNCHANGED server

\* click on stopBtn (part_000:41)
ClickStop ==
    /\ ~stopBtnDisabled
    /\ stopListening
    /\ call' = Ran("stopListening", FALSE)
    /\ UNCHANGED <<timers, pendingMedia, startBtnDisabled, stopBtnDisabled>>
    /\ UNCHANGED server

\* change of languageSelect while listening, part_000:67-72 (otherwise the
\* handler does nothing)
ChangeLanguage ==
    /\ isListening
    /\ Len(timers) < MaxTimers
    /\ stopListening
    /\ timers' = Append(timers, "startListening")
    /\ call' = Ran("change", FALSE)
    /\ UNCHANGED <<pendingMedia, startBtnDisabled, stopBtnDisabled>>
    /\ UNCHANGED server

\* recognition.onstart, part_000:92-98
OnStart ==
    /\ recognition \in {"starting", "stopRequested"}
    /\ recognition' = IF recognition = "starting" THEN "running" ELSE "ending"
    /\ isListening' = TRUE
    /\ startBtnDisabled' = TRUE
    /\ stopBtnDisabled' = FALSE
    /\ call' = Ran("onstart", FALSE)
    /\ UNCHANGED <<timers, pendingMedia, stopped>>
    /\ UNCHANGED server

\* recognition.onend, part_000:109-122: the session ended, after stop(), by
\* itself (silence, an error) or before it began
OnEnd ==
    /\ recognition \in {"starting", "running", "stopRequested", "ending"}
    /\ recognition' = "idle"
    /\ IF isListening
       THEN /\ Len(timers) < MaxTimers
            /\ timers' = Append(timers, "restart")
            /\ UNCHANGED <<startBtnDisabled, stopBtnDisabled>>
       ELSE /\ startBtnDisabled' = FALSE
            /\ stopBtnDisabled' = TRUE
            /\ UNCHANGED timers
    /\ call' = Ran("onend", FALSE)
    /\ UNCHANGED <<isListening, pendingMedia, stopped>>
    /\ UNCHANGED server

\* the timer set by onend fires, part_000:112-116.  All timers have the same
\* delay, so they fire in the order they were set.
RestartTimer ==
    /\ timers # <<>>
    /\ Head(timers) = "restart"
    /\ timers' = Tail(timers)
    /\ recognition' = IF isListening THEN recognitionStart(recognition) ELSE recognition
    /\ call' = Ran("restart", isListening)
    /\ UNCHANGED <<isListening, pendingMedia, startBtnDisabled, stopBtnDisabled, stopped>>
    /\ UNCHANGED server

\* the timer set by the change handler fires, part_000:70
LanguageTimer ==
    /\ timers # <<>>
    /\ Head(timers) = "startListening"
    /\ timers' = Tail(timers)
    /\ startListening
    /\ call' = Ran("startListening", FALSE)
    /\ UNCHANGED <<isListening, recognition, startBtnDisabled, stopBtnDisabled>>
    /\ UNCHANGED server

NextClient ==
    \/ ClickStart
    \/ \E granted \in BOOLEAN : MediaSettled(granted)
    \/ ClickStop
    \/ ChangeLanguage
    \/ OnStart
    \/ OnEnd
    \/ RestartTimer
    \/ LanguageTimer

SpecClient == Init /\ [][NextClient]_vars

----------------------------------------------------------------------------
(* Properties *)

\* the channels of the ws.send calls of a step
SentTo(q) == { q[i].to : i \in 1..Len(q) }

\* the channels of the stored sessions, other than the one under id, that are active
ActiveOthers(m, id) ==
    { m[i].ws : i \in { j \in 1..Len(m) : m[j].id # id /\ m[j].isActive } }

\* the last step handled a frame of type ty that arrived on a channel whose
\* sessionId is (now) a key of the Map
Handled(ty) ==
    /\ event.kind = "message"
    /\ FrameType(event.frame) = ty
    /\ MapHas(activeSessions, sessionId[event.conn])

\* C1: when a subtitle_update from a sender in the store has been handled, the
\* channels the broadcast was sent to are exactly those of the stored sessions
\* other than the sender whose isActive is true, each once: the sender's own
\* channel and the channels of inactive sessions are not among them.  (The
\* handler leaves the Map as it was, so the Map after the step is the Map of
\* that moment.)
C1_BroadcastTargets ==
    Handled("subtitle_update") =>
        LET S == sessionId[event.conn]
        IN /\ SentTo(sent) = ActiveOthers(activeSessions, S)
           /\ Len(sent) = Cardinality(ActiveOthers(activeSessions, S))
           /\ MapGet(activeSessions, S).ws \notin SentTo(sent)
           /\ event.conn \notin SentTo(sent)
           /\ \A i \in 1..Len(activeSessions) :
                 ~activeSessions[i].isActive => activeSessions[i].ws \notin SentTo(sent)

\* an active sender, an active viewer and an inactive viewer: one send, to the
\* active viewer
C1_Witness ==
    /\ Handled("subtitle_update")
    /\ Len(activeSessions) = 3
    /\ MapGet(activeSessions, sessionId[event.conn]).isActive
    /\ \E i \in 1..3 : ~activeSessions[i].isActive
    /\ Len(sent) = 1

\* C2: in a broadcast in which a send throws, every active session other than
\* the sender is still sent the broadcast, the Map (the sender's session with
\* it) is left as it was, no error message is sent, and the exception ends
\* neither the handler nor the process.
C2_FailedSendIsSkipped ==
    [][ ( /\ event'.kind = "message"
          /\ FrameType(event'.frame) = "subtitle_update"
          /\ MapHas(activeSessions, sessionId[event'.conn])
          /\ \E i \in 1..Len(sent') : sent'[i].threw )
        =>
        ( /\ SentTo(sent') = ActiveOthers(activeSessions, sessionId[event'.conn])
          /\ activeSessions' = activeSessions
          /\ \A i \in 1..Len(sent') : sent'[i].msg.type = "subtitle_update"
          /\ proc' = proc ) ]_vars

\* the send to the first of two viewers threw and the second was still sent to
C2_Witness ==
    /\ Handled("subtitle_update")
    /\ Len(sent) = 2
    /\ sent[1].threw
    /\ ~sent[2].threw
    /\ proc = "running"

\* a 'close' or 'error' event of channel c has been handled
Removed(c) == channel[c] \in {"ERRORED", "CLOSED"}

\* the last step accepted channel c and its session_init send threw
InitialSendFailed(c) ==
    /\ event.kind = "connection"
    /\ event.conn = c
    /\ sent[1].threw

\* C3: every session in the store has a channel that is open: not closed by a
\* 'close' event, not errored, not closed by the server (close() called at
\* shutdown), and not one whose initial send failed.
C3_NoClosedChannelInStore ==
    \A i \in 1..Len(activeSessions) :
        /\ channel[activeSessions[i].ws] = "OPEN"
        /\ ~InitialSendFailed(activeSessions[i].ws)

\* C4: accepting a connection assigns an identifier that is not a key of the
\* Map, and leaves every session of the Map as it was.
C4_FreshIdentifier ==
    [][ ( /\ event'.kind = "connection"
          /\ channel[event'.conn] = "NONE" )
        =>
        ( /\ ~MapHas(activeSessions, sessionId'[event'.conn])
          /\ \A i \in 1..Len(activeSessions) :
                activeSessions'[i] = activeSessions[i] ) ]_vars

\* C5: no sequence of events ends the process with an uncaught exception.
C5_NoFatalPath == proc # "crashed"

\* C6: once a 'close' or 'error' event has removed the session of channel c,
\* its identifier is not a key of the Map after any later step, a frame arriving
\* on c is answered with no send at all, and no step sends anything to c.
C6_RemovedIsTerminal ==
    [][ \A c \in Conns :
          Removed(c) =>
            /\ ~MapHas(activeSessions', sessionId[c])
            /\ (event'.kind = "message" /\ event'.conn = c) => sent' = <<>>
            /\ c \notin SentTo(sent') ]_vars

\* C7: a 'close' or 'error' event of a channel whose session was removed before
\* (an earlier 'close' or 'error' of the channel was handled and its identifier
\* is not a key of the Map) leaves the Map, and with it every other session, as
\* it was, sends nothing, and does not end the process.
C7_RemoveIsIdempotent ==
    [][ ( /\ event'.kind \in {"close", "error"}
          /\ Removed(event'.conn)
          /\ ~MapHas(activeSessions, sessionId[event'.conn]) )
        =>
        ( /\ activeSessions' = activeSessions
          /\ sent' = <<>>
          /\ proc' = proc ) ]_vars

\* an 'error' after the 'close' of the same channel, with another session in
\* the store
C7_Witness ==
    /\ event.kind = "error"
    /\ channel[event.conn] = "CLOSED"
    /\ ~MapHas(activeSessions, sessionId[event.conn])
    /\ Len(activeSessions) = 1
    /\ proc = "running"

\* C8: when SIGTERM or SIGINT has been handled, every session of the Map has
\* been sent server_shutdown.
C8_ShutdownNotifiesAll ==
    event.kind \in {"SIGTERM", "SIGINT"} =>
        \A i \in 1..Len(activeSessions) :
            \E j \in 1..Len(sent) :
                /\ sent[j].to = activeSessions[i].ws
                /\ sent[j].msg.type = "server_shutdown"

\* C9: a frame arriving on a channel with identifier s leaves the keys of the
\* Map and every session under another identifier as they were; of the session
\* under s it changes isActive only to true by start_listening and to false by
\* stop_listening, the language only by start_listening, and nothing by any
\* other frame (ping, subtitle_update, an unknown type, no type, null,
\* malformed).  A step that is no frame changes no isActive and no language of
\* a session that stays in the Map.
C9_FrameEffects ==
    [][ /\ event'.kind = "message" =>
            LET s == sessionId[event'.conn]
                ty == FrameType(event'.frame)
            IN /\ MapKeys(activeSessions') = MapKeys(activeSessions)
               /\ \A id \in MapKeys(activeSessions) \ {s} :
                     MapGet(activeSessions', id) = MapGet(activeSessions, id)
               /\ MapHas(activeSessions, s) =>
                     LET a == MapGet(activeSessions, s)
                         b == MapGet(activeSessions', s)
                     IN /\ b.ws = a.ws
                        /\ b.isActive # a.isActive =>
                              \/ ty = "start_listening" /\ b.isActive
                              \/ ty = "stop_listening" /\ ~b.isActive
                        /\ b.language # a.language => ty = "start_listening"
                        /\ ty \notin {"start_listening", "stop_listening"} => b = a
        /\ event'.kind # "message" =>
            \A id \in MapKeys(activeSessions) \cap MapKeys(activeSessions') :
                MapGet(activeSessions', id).ws = MapGet(activeSessions, id).ws
                    => MapGet(activeSessions', id) = MapGet(activeSessions, id)
      ]_vars

\* a frame of an unknown type from an active session with language fr-FR, with
\* a second, active session in the store
C9_Witness ==
    /\ Handled("foo")
    /\ Len(activeSessions) = 2
    /\ \A i \in 1..2 : activeSessions[i].isActive
    /\ MapGet(activeSessions, sessionId[event.conn]).language = "fr-FR"

\* the language a start_listening payload asks for: its language property, or
\* en-US when it has none (no property, or an empty one)
RequestedLanguage(d) ==
    IF "language" \in DOMAIN d /\ d.language # "" THEN d.language ELSE "en-US"

\* C10: when start_listening has been handled for a session in the store, the
\* session is active, its language is the one the payload asks for (en-US when
\* it asks for none), and the first send of the step is listening_started, on
\* the session's channel, carrying the stored language.
C10_StartListening ==
    Handled("start_listening") =>
        LET session == MapGet(activeSessions, sessionId[event.conn])
        IN /\ session.isActive
           /\ session.language = RequestedLanguage(event.frame.data)
           /\ Len(sent) >= 1
           /\ sent[1].to = session.ws
           /\ sent[1].msg = [type |-> "listening_started",
                             language |-> session.language]

\* start_listening without a language, answered with listening_started en-US
C10_Witness ==
    /\ Handled("start_listening")
    /\ "language" \notin DOMAIN event.frame.data
    /\ MapGet(activeSessions, sessionId[event.conn]).language = "en-US"
    /\ ~sent[1].threw

\* the sends of a step that carry a broadcast, as channels
BroadcastTo(q) == { q[i].to : i \in { j \in 1..Len(q) : q[j].msg.type = "subtitle_update" } }

\* C11: a step that handles stop_listening for a session in the store, active
\* or not, leaves the session with isActive false and its language as it was;
\* its first send is listening_stopped on the session's channel, and it sends the
\* session no broadcast.  From then until its next start_listening the session
\* receives no broadcast: no step sends a broadcast to the channel of a stored
\* session whose isActive is false, and the only step after which such a session
\* has isActive true is a start_listening frame under its identifier.
C11_StopListening ==
    [][ /\ ( /\ event'.kind = "message"
             /\ FrameType(event'.frame) = "stop_listening"
             /\ MapHas(activeSessions, sessionId[event'.conn]) )
           =>
           LET a == MapGet(activeSessions, sessionId[event'.conn])
               b == MapGet(activeSessions', sessionId[event'.conn])
           IN /\ MapHas(activeSessions', sessionId[event'.conn])
              /\ ~b.isActive
              /\ b.language = a.language
              /\ Len(sent') >= 1
              /\ sent'[1].to = b.ws
              /\ sent'[1].msg = [type |-> "listening_stopped"]
              /\ b.ws \notin BroadcastTo(sent')
        /\ \A i \in 1..Len(activeSessions) :
              ~activeSessions[i].isActive =>
                 /\ activeSessions[i].ws \notin BroadcastTo(sent')
                 /\ ( /\ MapHas(activeSessions', activeSessions[i].id)
                      /\ MapGet(activeSessions', activeSessions[i].id).isActive )
                    => /\ event'.kind = "message"
                       /\ FrameType(event'.frame) = "start_listening"
                       /\ sessionId[event'.conn] = activeSessions[i].id
      ]_vars

\* stop_listening from a session that start_listening had set to fr-FR, answered
\* with listening_stopped, with a second, active session in the store
C11_Witness ==
    /\ Handled("stop_listening")
    /\ Len(activeSessions) = 2
    /\ ~MapGet(activeSessions, sessionId[event.conn]).isActive
    /\ MapGet(activeSessions, sessionId[event.conn]).language = "fr-FR"
    /\ \E i \in 1..2 : activeSessions[i].isActive
    /\ ~sent[1].threw

\* the types the switch of handleWebSocketMessage has a case for
KnownTypes == {"start_listening", "stop_listening", "subtitle_update", "ping"}

\* C12: a step that handles a decoded frame whose type is none of
\* start_listening, stop_listening, subtitle_update, ping, for a session in the
\* store, sends first, on the session's channel, the error message "Unknown
\* message type: <type>"; it leaves the session in the store as it was (isActive
\* and language with it) and leaves the process running, so that a later ping of
\* the session is handled; and a ping handled for a session in the store is
\* answered first with pong on the session's channel.
C12_UnknownTypeRecoverable ==
    [][ /\ ( /\ event'.kind = "message"
             /\ event'.frame.form = "object"
             /\ FrameType(event'.frame) \notin KnownTypes
             /\ MapHas(activeSessions, sessionId[event'.conn]) )
           =>
           LET s == sessionId[event'.conn]
           IN /\ Len(sent') >= 1
              /\ sent'[1].to = MapGet(activeSessions, s).ws
              /\ sent'[1].msg = [type |-> "error",
                                 message |-> <<"Unknown message type: ",
                                               FrameType(event'.frame)>>]
              /\ MapHas(activeSessions', s)
              /\ MapGet(activeSessions', s) = MapGet(activeSessions, s)
              /\ proc' = proc
        /\ ( /\ event'.kind = "message"
             /\ FrameType(event'.frame) = "ping"
             /\ MapHas(activeSessions, sessionId[event'.conn]) )
           =>
           /\ Len(sent') >= 1
           /\ sent'[1].to = MapGet(activeSessions, sessionId[event'.conn]).ws
           /\ sent'[1].msg.type = "pong"
      ]_vars

\* C13: a step that handles a frame that does not parse, arriving on the channel
\* of a session in the store, makes one send, the error "Invalid message format"
\* on that channel, and so no broadcast; it leaves the Map as it was (the session
\* in it, isActive and language unchanged) and leaves the process running, so
\* that later frames of the session are handled.
C13_MalformedRecoverable ==
    [][ ( /\ event'.kind = "message"
          /\ event'.frame.form = "malformed"
          /\ MapHas(activeSessions, sessionId[event'.conn]) )
        =>
        ( /\ Len(sent') = 1
          /\ sent'[1].to = event'.conn
          /\ sent'[1].msg = [type |-> "error",
                             message |-> <<"Invalid message format">>]
          /\ BroadcastTo(sent') = {}
          /\ activeSessions' = activeSessions
          /\ proc' = proc ) ]_vars

\* C14: when a ping with timestamp T has been handled for a session in the
\* store, the first send of the step is a pong whose latency is now - T for a
\* reading now of the server clock, and the latency is not negative, whatever T
\* is (also a T later than the server clock).
C14_PongLatency ==
    Handled("ping") =>
        /\ Len(sent) >= 1
        /\ sent[1].msg.type = "pong"
        /\ \E now \in Times : sent[1].msg.latency = now - event.frame.data.timestamp
        /\ sent[1].msg.latency >= 0

\* C15: the step that accepts a connection on channel c leaves in the Map, under
\* the identifier assigned to c, a session with channel c, isActive false and
\* language "en-US", and its one send is session_init carrying that identifier,
\* on c.  It is the first message ever sent on c: a step from a state in which c
\* is not yet accepted that sends anything to c is that accepting step, and the
\* first send to c in it is session_init (no reply, error or broadcast before).
C15_SessionInitFirst ==
    [][ /\ event'.kind = "connection" =>
            LET c == event'.conn
            IN /\ channel[c] = "NONE"
               /\ MapHas(activeSessions', sessionId'[c])
               /\ MapGet(activeSessions', sessionId'[c]) =
                     [id |-> sessionId'[c], ws |-> c,
                      language |-> "en-US", isActive |-> FALSE]
               /\ Len(sent') = 1
               /\ sent'[1].to = c
               /\ sent'[1].msg = [type |-> "session_init",
                                  sessionId |-> sessionId'[c]]
        /\ \A c \in Conns :
              (channel[c] = "NONE" /\ c \in SentTo(sent')) =>
                 /\ event'.kind = "connection"
                 /\ event'.conn = c
                 /\ sent'[1].to = c
                 /\ sent'[1].msg.type = "session_init"
      ]_vars

\* the second connection is accepted while the first session is active, and its
\* session_init is sent
C15_Witness ==
    /\ event.kind = "connection"
    /\ event.conn = 2
    /\ Len(activeSessions) = 2
    /\ activeSessions[1].isActive
    /\ ~activeSessions[2].isActive
    /\ sent[1].msg.type = "session_init"
    /\ ~sent[1].threw

\* C16: when a subtitle_update from a sender in the store has been handled,
\* every message sent carries as sessionId the identifier of the channel the
\* frame arrived on and as serverTimestamp a reading of the server clock, also
\* when the payload has sessionId and serverTimestamp fields of its own; it has
\* the payload's fields and these two, and every other field has the payload's
\* value.
C16_ServerMetadata ==
    Handled("subtitle_update") =>
        \A i \in 1..Len(sent) :
            LET msg == sent[i].msg
                d == event.frame.data
            IN /\ DOMAIN msg = DOMAIN d \cup {"sessionId", "serverTimestamp"}
               /\ msg.sessionId = sessionId[event.conn]
               /\ msg.serverTimestamp \in Times
               /\ \A k \in DOMAIN d \ {"sessionId", "serverTimestamp"} : msg[k] = d[k]

\* a payload with its own sessionId and serverTimestamp, from the session with
\* another identifier, was delivered to an active session
C16_Witness ==
    /\ Handled("subtitle_update")
    /\ "sessionId" \in DOMAIN event.frame.data
    /\ event.frame.data.sessionId # sessionId[event.conn]
    /\ event.frame.data.serverTimestamp \notin Times
    /\ Len(sent) = 1
    /\ ~sent[1].threw

\* C17: when a health query has been answered, the activeSessions value of the
\* response is the number of sessions in the Map (the query leaves the Map as it
\* was), whether their isActive is true or false.
C17_HealthCount ==
    event.kind = "health" =>
        /\ response.status = "healthy"
        /\ response.activeSessions = Cardinality(MapKeys(activeSessions))
        /\ response.activeSessions = Len(activeSessions)

\* a health query with an active and an inactive session in the store, answered
\* with 2
C17_Witness ==
    /\ event.kind = "health"
    /\ Len(activeSessions) = 2
    /\ \E i \in 1..2 : activeSessions[i].isActive
    /\ \E i \in 1..2 : ~activeSessions[i].isActive
    /\ response.activeSessions = 2

\* C18: when SIGTERM has been handled, every session of the Map was sent
\* server_shutdown and its channel is closed (close() was called on it, or it
\* was closed before), also a session whose server_shutdown send threw and the
\* sessions after it in the Map.
C18_ShutdownClosesAll ==
    event.kind = "SIGTERM" =>
        \A i \in 1..Len(activeSessions) :
            /\ \E j \in 1..Len(sent) :
                  /\ sent[j].to = activeSessions[i].ws
                  /\ sent[j].msg.type = "server_shutdown"
            /\ channel[activeSessions[i].ws] # "OPEN"

\* C19: when a frame that parses has been handled (an object of any type or of
\* no type, or null; whether or not the send of its reply threw), no send of the
\* step is the error "Invalid message format".
C19_InvalidFormatOnlyForMalformed ==
    (event.kind = "message" /\ event.frame.form # "malformed") =>
        \A i \in 1..Len(sent) :
            sent[i].msg # [type |-> "error", message |-> <<"Invalid message format">>]

\* C20: a step that handles a subtitle_update from a session of the Map whose
\* isActive is false sends the broadcast, once each, to the channels of all
\* other sessions whose isActive is true, and leaves the sender in the Map with
\* isActive false.
C20_InactiveSenderBroadcasts ==
    [][ ( /\ event'.kind = "message"
          /\ FrameType(event'.frame) = "subtitle_update"
          /\ MapHas(activeSessions, sessionId[event'.conn])
          /\ ~MapGet(activeSessions, sessionId[event'.conn]).isActive )
        =>
        LET s == sessionId[event'.conn]
        IN /\ BroadcastTo(sent') = ActiveOthers(activeSessions, s)
           /\ Len(sent') = Cardinality(ActiveOthers(activeSessions, s))
           /\ \A i \in 1..Len(sent') : sent'[i].msg.sessionId = s
           /\ MapHas(activeSessions', s)
           /\ ~MapGet(activeSessions', s).isActive ]_vars

\* an inactive sender and two active viewers: both were sent the broadcast
C20_Witness ==
    /\ Handled("subtitle_update")
    /\ ~MapGet(activeSessions, sessionId[event.conn]).isActive
    /\ Len(activeSessions) = 3
    /\ Len(sent) = 2
    /\ \A i \in 1..2 : sent[i].msg.type = "subtitle_update" /\ ~sent[i].threw

\* the last step called recognition.start() and the recognizer accepted the call
Restarted == call'.start /\ recognition = "idle" /\ recognition' = "starting"

\* C21: after stopListening() has run and until startListening() is called
\* again, no step of the onend handler or of a timer it set starts the
\* recognizer with recognition.start(); and while isListening is true every
\* onend leads to a restart: an onend that finds isListening true sets the
\* restart timer, and the restart timer calls recognition.start() when it finds
\* isListening true.
C21_NoRestartAfterStop ==
    [][ /\ (stopped' /\ call'.handler \in {"onend", "restart"}) => ~Restarted
        /\ (call'.handler = "onend" /\ isListening) =>
              /\ Len(timers') = Len(timers) + 1
              /\ timers'[Len(timers')] = "restart"
        /\ (call'.handler = "restart" /\ isListening) => call'.start
      ]_vars

====
